---- MODULE Spec2Model ----
(***************************************************************************)
(* dotenv-parser: typed parsing of environment-variable strings            *)
(* (src/src/index.ts) and the mandatory-variable check (src/src/sanity.ts).*)
(*                                                                         *)
(* Every exported function is a single synchronous call.  A state of the   *)
(* model is one invocation: the function named, its arguments, the         *)
(* process environment, and (once the call has run) its outcome, which is  *)
(* either a returned value or a thrown RangeError.                         *)
(*                                                                         *)
(* JavaScript values are tagged records; a JavaScript string is a sequence *)
(* of one-character strings so that trim, toLowerCase, split and Number    *)
(* are computed character by character as the engine computes them.        *)
(***************************************************************************)
EXTENDS Integers, Sequences, FiniteSets, TLC

VARIABLES fn, value2Parse, fallbackValue, options, required, env, pc, result

vars == <<fn, value2Parse, fallbackValue, options, required, env, pc, result>>

-----------------------------------------------------------------------------
(* Bounds of the inputs explored.                                          *)

MaxBoolLen == 5
MaxStrLen == 4
MaxNumLen == 4
MaxArrLen == 5
MaxNullLen == 5
MaxRequired == 3

-----------------------------------------------------------------------------
(* JavaScript values.                                                      *)

Undefined == [t |-> "undefined"]
Null == [t |-> "null"]
Bool(b) == [t |-> "boolean", v |-> b]
Str(s) == [t |-> "string", v |-> s]
Num(n) == [t |-> "number", v |-> n]
Arr(a) == [t |-> "array", v |-> a]
Obj(f) == [t |-> "object", v |-> f]

(* Numbers: NaN, the infinities, and finite decimals (-1)^neg * m * 10^e   *)
(* kept normalised (m has no factor 10; zero is m = 0, e = 0), so that two *)
(* numerals denote the same number exactly when their records are equal.   *)
(* The sign of zero is kept: Number("-0") is -0.                           *)
NaN == [k |-> "nan"]
Infinity(neg) == [k |-> "inf", neg |-> neg]
Fin(neg, m, e) == [k |-> "fin", neg |-> neg, m |-> m, e |-> e]
Int2Num(i) == IF i < 0 THEN Fin(TRUE, -i, 0) ELSE Fin(FALSE, i, 0)

(* Outcome of a call.                                                      *)
Return(v) == [t |-> "return", v |-> v]
Throw(message) == [t |-> "throw", v |-> [name |-> "RangeError", message |-> message]]
None == [t |-> "none"]

-----------------------------------------------------------------------------
(* String primitives of the engine.                                        *)

(* WhiteSpace and LineTerminator code points removed by trim() and skipped *)
(* by Number(); the inputs explored use the space and the tab.             *)
WhiteSpaceChars == {" ", "\t", "\n", "\r", "\f"}

UpperChars == <<"A","B","C","D","E","F","G","H","I","J","K","L","M",
                "N","O","P","Q","R","S","T","U","V","W","X","Y","Z">>
LowerChars == <<"a","b","c","d","e","f","g","h","i","j","k","l","m",
                "n","o","p","q","r","s","t","u","v","w","x","y","z">>

toLowerCaseChar(c) ==
    IF \E i \in 1..Len(UpperChars) : UpperChars[i] = c
    THEN LowerChars[CHOOSE i \in 1..Len(UpperChars) : UpperChars[i] = c]
    ELSE c

toLowerCase(s) == [i \in 1..Len(s) |-> toLowerCaseChar(s[i])]

RECURSIVE trimStart(_)
trimStart(s) ==
    IF s # <<>> /\ Head(s) \in WhiteSpaceChars THEN trimStart(Tail(s)) ELSE s

RECURSIVE trimEnd(_)
trimEnd(s) ==
    IF s # <<>> /\ s[Len(s)] \in WhiteSpaceChars
    THEN trimEnd(SubSeq(s, 1, Len(s) - 1))
    ELSE s

trim(s) == trimEnd(trimStart(s))

(* All strings over an alphabet up to a length.                            *)
Strings(chars, n) == UNION {[1..k -> chars] : k \in 0..n}

-----------------------------------------------------------------------------
(* parseBoolean (index.ts 15-22).                                          *)

(* Faulty variant: the comparison is made without trim().                 *)
parseBooleanNoTrim(v) ==
    IF v.t = "string"
    THEN Return(Bool(toLowerCase(v.v) \in {<<"t","r","u","e">>, <<"1">>}))
    ELSE Return(Bool(FALSE))

parseBoolean(v) ==
    IF v.t = "string"
    THEN Return(Bool(trim(toLowerCase(v.v)) \in {<<"t","r","u","e">>, <<"1">>}))
    ELSE Return(Bool(FALSE))

-----------------------------------------------------------------------------
(* parseString (index.ts 44-56).                                           *)

(* Faulty variant: the fallback is trimmed like an input.                 *)
parseStringTrimsFallback(v, fallback) ==
    IF v.t = "string"
    THEN Return(Str(trim(v.v)))
    ELSE IF fallback = Undefined
         THEN Throw("undefined input without a fallback")
         ELSE IF fallback.t = "string"
              THEN Return(Str(trim(fallback.v)))
              ELSE Return(fallback)

parseString(v, fallback) ==
    IF v.t = "string"
    THEN Return(Str(trim(v.v)))
    ELSE IF fallback = Undefined
         THEN Throw("undefined input without a fallback")
         ELSE Return(fallback)

-----------------------------------------------------------------------------
(* Number(value): ToNumber applied to undefined or to a string             *)
(* (StringToNumber: StrWhiteSpace is skipped on both sides, the empty      *)
(* string is +0, a StrDecimalLiteral is converted, anything else is NaN).  *)
(* The non-decimal literals (0x, 0o, 0b) need characters the explored      *)
(* inputs do not contain and are not modelled.                             *)

DigitChars == <<"0","1","2","3","4","5","6","7","8","9">>

IsDigit(c) == \E i \in 1..Len(DigitChars) : DigitChars[i] = c

DigitValue(c) == (CHOOSE i \in 1..Len(DigitChars) : DigitChars[i] = c) - 1

AllDigits(s) == \A i \in 1..Len(s) : IsDigit(s[i])

RECURSIVE DigitsToNat(_)
DigitsToNat(s) ==
    IF s = <<>> THEN 0
    ELSE 10 * DigitsToNat(SubSeq(s, 1, Len(s) - 1)) + DigitValue(s[Len(s)])

RECURSIVE NumDigits(_)
NumDigits(m) == IF m < 10 THEN 1 ELSE 1 + NumDigits(m \div 10)

RECURSIVE Pow10(_)
Pow10(n) == IF n = 0 THEN 1 ELSE 10 * Pow10(n - 1)

(* Leading zeros carry no value; dropping them keeps the digit string      *)
(* within the integers TLC computes with.                                  *)
RECURSIVE StripLeadingZeros(_)
StripLeadingZeros(s) ==
    IF s # <<>> /\ Head(s) = "0" THEN StripLeadingZeros(Tail(s)) ELSE s

(* Index of the first character of s that is in cs, 0 when there is none.  *)
IndexOfAny(s, cs) ==
    IF \E i \in 1..Len(s) : s[i] \in cs
    THEN CHOOSE i \in 1..Len(s) : s[i] \in cs /\ \A j \in 1..(i - 1) : s[j] \notin cs
    ELSE 0

(* The double nearest to (-1)^neg * m * 10^e for a mantissa of at most     *)
(* nine digits: normalised; beyond the largest double                      *)
(* (1.7976931348623157e308) it is an infinity, below the smallest it is a  *)
(* zero.  The rounding of subnormals (below 1e-307) is not modelled; no    *)
(* numeral within the length bound has such an exponent.                   *)
RECURSIVE RoundToDouble(_, _, _)
RoundToDouble(neg, m, e) ==
    IF m = 0 THEN Fin(neg, 0, 0)
    ELSE IF m % 10 = 0 THEN RoundToDouble(neg, m \div 10, e + 1)
    ELSE LET d == NumDigits(m)
             sci == e + d - 1
         IN  IF sci > 308 \/ (sci = 308 /\ m * Pow10(9 - d) > 179769313)
             THEN Infinity(neg)
             ELSE IF sci < -324 THEN Fin(neg, 0, 0)
             ELSE Fin(neg, m, e)

(* StrUnsignedDecimalLiteral without the "Infinity" alternative:           *)
(*   DecimalDigits . DecimalDigits? ExponentPart?                          *)
(*   . DecimalDigits ExponentPart?                                         *)
(*   DecimalDigits ExponentPart?                                           *)
(* given as its mantissa text and, when an e or E occurs, the text after   *)
(* it.                                                                     *)
MantissaText(body) ==
    LET x == IndexOfAny(body, {"e", "E"})
    IN  IF x = 0 THEN body ELSE SubSeq(body, 1, x - 1)

HasExponent(body) == IndexOfAny(body, {"e", "E"}) # 0

ExponentText(body) ==
    SubSeq(body, IndexOfAny(body, {"e", "E"}) + 1, Len(body))

IntegerText(mant) ==
    LET p == IndexOfAny(mant, {"."})
    IN  IF p = 0 THEN mant ELSE SubSeq(mant, 1, p - 1)

FractionText(mant) ==
    LET p == IndexOfAny(mant, {"."})
    IN  IF p = 0 THEN <<>> ELSE SubSeq(mant, p + 1, Len(mant))

ExponentDigits(x) ==
    IF x # <<>> /\ Head(x) \in {"+", "-"} THEN Tail(x) ELSE x

IsExponentPart(x) ==
    ExponentDigits(x) # <<>> /\ AllDigits(ExponentDigits(x))

ExponentValue(x) ==
    LET n == DigitsToNat(StripLeadingZeros(ExponentDigits(x)))
    IN  IF x # <<>> /\ Head(x) = "-" THEN -n ELSE n

IsUnsignedDecimalLiteral(body) ==
    LET mant == MantissaText(body)
    IN  /\ AllDigits(IntegerText(mant))
        /\ AllDigits(FractionText(mant))
        /\ Len(IntegerText(mant)) + Len(FractionText(mant)) > 0
        /\ HasExponent(body) => IsExponentPart(ExponentText(body))

InfinityText == <<"I","n","f","i","n","i","t","y">>

StringToNumber(s) ==
    LET t == trim(s)
        signed == t # <<>> /\ Head(t) \in {"+", "-"}
        neg == t # <<>> /\ Head(t) = "-"
        body == IF signed THEN Tail(t) ELSE t
        mant == MantissaText(body)
        digits == StripLeadingZeros(IntegerText(mant) \o FractionText(mant))
        ex == IF HasExponent(body) THEN ExponentValue(ExponentText(body)) ELSE 0
    IN  IF t = <<>> THEN Fin(FALSE, 0, 0)
        ELSE IF body = InfinityText THEN Infinity(neg)
        ELSE IF IsUnsignedDecimalLiteral(body)
             THEN RoundToDouble(neg, DigitsToNat(digits), ex - Len(FractionText(mant)))
             ELSE NaN

Number(v) == IF v.t = "string" THEN StringToNumber(v.v) ELSE NaN

-----------------------------------------------------------------------------
(* parseNumber (index.ts 78-89).                                           *)

(* Faulty variant: a supplied fallback wins over a convertible input.     *)
parseNumberFallbackFirst(v, fallback) ==
    IF fallback # Undefined THEN Return(fallback)
    ELSE IF Number(v) = NaN
         THEN Throw("undefined input without a fallback")
         ELSE Return(Num(Number(v)))

parseNumber(v, fallback) ==
    LET parsed == Number(v)
    IN  IF parsed = NaN
        THEN IF fallback = Undefined
             THEN Throw("undefined input without a fallback")
             ELSE Return(fallback)
        ELSE Return(Num(parsed))

-----------------------------------------------------------------------------
(* Options objects and the spread  { ...defaults, ...options }.            *)
(* An object is a function from its own keys to their values; spreading    *)
(* undefined adds nothing, and a key present in options (even with the     *)
(* value undefined) replaces the default.                                  *)

Spread(defaults, opts) ==
    IF opts.t = "object"
    THEN [k \in DOMAIN defaults \cup DOMAIN opts.v |->
            IF k \in DOMAIN opts.v THEN opts.v[k] ELSE defaults[k]]
    ELSE defaults

ToBoolean(v) == v.t = "boolean" /\ v.v

-----------------------------------------------------------------------------
(* String.prototype.split(separator) with a string or undefined separator. *)

(* Index of the first occurrence of r in s, 0 when there is none.          *)
StringIndexOf(s, r) ==
    LET at(i) == SubSeq(s, i, i + Len(r) - 1) = r
        starts == 1..(Len(s) - Len(r) + 1)
    IN  IF \E i \in starts : at(i)
        THEN CHOOSE i \in starts : at(i) /\ \A j \in 1..(i - 1) : ~at(j)
        ELSE 0

RECURSIVE SplitAt(_, _)
SplitAt(s, r) ==
    LET j == StringIndexOf(s, r)
    IN  IF j = 0 THEN <<s>>
        ELSE <<SubSeq(s, 1, j - 1)>> \o SplitAt(SubSeq(s, j + Len(r), Len(s)), r)

(* Faulty variant: empty pieces are dropped from the split.                *)
splitDropsEmpty(s, separator) ==
    IF separator.t = "undefined" THEN <<s>>
    ELSE IF s = <<>> THEN (IF separator.v = <<>> THEN <<>> ELSE << <<>> >>)
    ELSE IF separator.v = <<>> THEN [i \in 1..Len(s) |-> <<s[i]>>]
    ELSE SelectSeq(SplitAt(s, separator.v), LAMBDA piece : piece # <<>>)

split(s, separator) ==
    IF separator.t = "undefined" THEN <<s>>
    ELSE IF s = <<>> THEN (IF separator.v = <<>> THEN <<>> ELSE << <<>> >>)
    ELSE IF separator.v = <<>> THEN [i \in 1..Len(s) |-> <<s[i]>>]
    ELSE SplitAt(s, separator.v)

-----------------------------------------------------------------------------
(* parseArray (index.ts 114-131) and its defaults (index.ts 144-147).      *)

Comma == <<",">>

(* Faulty variant: parseNumber defaults to true.                          *)
defaultOptionsParseArrayNumeric ==
    [k \in {"delimiter", "parseNumber"} |->
        IF k = "delimiter" THEN Str(Comma) ELSE Bool(TRUE)]

defaultOptionsParseArray ==
    [k \in {"delimiter", "parseNumber"} |->
        IF k = "delimiter" THEN Str(Comma) ELSE Bool(FALSE)]

(* Array.prototype.map with a callback that may throw: the first element   *)
(* whose callback throws ends the call with that exception.                *)
MapOutcomes(outcomes) ==
    IF \E i \in 1..Len(outcomes) : outcomes[i].t = "throw"
    THEN outcomes[CHOOSE i \in 1..Len(outcomes) :
                    /\ outcomes[i].t = "throw"
                    /\ \A j \in 1..(i - 1) : outcomes[j].t # "throw"]
    ELSE Return(Arr([i \in 1..Len(outcomes) |-> outcomes[i].v]))

(* Faulty variant: an absent input is split like the empty string.        *)
parseArrayAbsentIsOneEmpty(v, opts) ==
    LET overriddenOptions == Spread(defaultOptionsParseArray, opts)
        pieces == split(IF v = Undefined THEN <<>> ELSE v.v, overriddenOptions["delimiter"])
    IN  IF ToBoolean(overriddenOptions["parseNumber"])
        THEN MapOutcomes([i \in 1..Len(pieces) |-> parseNumber(Str(pieces[i]), Undefined)])
        ELSE MapOutcomes([i \in 1..Len(pieces) |-> parseString(Str(pieces[i]), Undefined)])

parseArray(v, opts) ==
    LET overriddenOptions == Spread(defaultOptionsParseArray, opts)
        pieces == split(v.v, overriddenOptions["delimiter"])
    IN  IF v # Undefined
        THEN IF ToBoolean(overriddenOptions["parseNumber"])
             THEN MapOutcomes([i \in 1..Len(pieces) |-> parseNumber(Str(pieces[i]), Undefined)])
             ELSE MapOutcomes([i \in 1..Len(pieces) |-> parseString(Str(pieces[i]), Undefined)])
        ELSE Return(Arr(<<>>))

-----------------------------------------------------------------------------
(* parseNull (index.ts 171-187) and its defaults (index.ts 198-200).       *)

defaultOptionsParseNull == [k \in {"allowUndefined"} |-> Bool(FALSE)]

NullText == <<"n","u","l","l">>

(* Faulty variant: the caller's options are not merged in.                 *)
parseNullIgnoresOptions(v, opts) ==
    IF v.t = "string"
    THEN IF trim(toLowerCase(v.v)) # NullText
         THEN Throw("value cannot be parsed into null")
         ELSE Return(Null)
    ELSE IF ~ToBoolean(defaultOptionsParseNull["allowUndefined"])
         THEN Throw("undefined value is not allowed to be parsed into null")
         ELSE Return(Null)

parseNull(v, opts) ==
    LET overriddenOptions == Spread(defaultOptionsParseNull, opts)
    IN  IF v.t = "string"
        THEN IF trim(toLowerCase(v.v)) # NullText
             THEN Throw("value cannot be parsed into null")
             ELSE Return(Null)
        ELSE IF ~ToBoolean(overriddenOptions["allowUndefined"])
             THEN Throw("undefined value is not allowed to be parsed into null")
             ELSE Return(Null)

-----------------------------------------------------------------------------
(* mandatoryVariables (sanity.ts 6-11).  Variable names and the message    *)
(* are TLA+ strings; process.env is a function from the names that are set *)
(* to their values, and  name in process.env  is membership in its domain  *)
(* (the names explored are plain variable names, none of them a property   *)
(* that objects inherit).                                                  *)

(* Array.prototype.join.                                                   *)
RECURSIVE join(_, _)
join(a, sep) ==
    IF a = <<>> THEN ""
    ELSE IF Len(a) = 1 THEN a[1]
    ELSE a[1] \o sep \o join(Tail(a), sep)

(* Faulty variant: the filter keeps the names that are set.                *)
mandatoryVariablesReportsPresent(req, processEnv) ==
    LET missingRequiredEnvVars == SelectSeq(req, LAMBDA envVar : envVar \in DOMAIN processEnv)
    IN  IF Len(missingRequiredEnvVars) # 0
        THEN Throw("missing required env variables [" \o join(missingRequiredEnvVars, ", ") \o "]")
        ELSE Return(Undefined)

mandatoryVariables(req, processEnv) ==
    LET missingRequiredEnvVars == SelectSeq(req, LAMBDA envVar : ~(envVar \in DOMAIN processEnv))
    IN  IF Len(missingRequiredEnvVars) # 0
        THEN Throw("missing required env variables [" \o join(missingRequiredEnvVars, ", ") \o "]")
        ELSE Return(Undefined)

-----------------------------------------------------------------------------
(* The inputs explored: every string over a small alphabet up to a length  *)
(* bound, or no value at all.                                              *)

BoolChars == {"t", "r", "u", "e", "T", "1", " "}
StrChars == {"a", " ", "\t"}
NumChars == {"0", "1", "-", ".", "e", "a", " "}
ArrChars == {"1", ",", ";", " "}
NullChars == {"n", "u", "l", "N", " "}
Names == {"A", "B", "C"}

Inputs(chars, n) == {Undefined} \cup {Str(s) : s \in Strings(chars, n)}

StringFallbacks ==
    {Undefined, Null, Str(<<>>), Str(<<"x">>), Str(<<" ", "x", " ">>)}

NumberFallbacks == {Undefined, Null, Num(Int2Num(0)), Num(Int2Num(7))}

(* Objects with any subset of the keys, each key holding one of its values.*)
Objects(valuesOf) ==
    {Obj(f) : f \in UNION {{g \in [S -> UNION {valuesOf[k] : k \in DOMAIN valuesOf}] :
                                \A k \in S : g[k] \in valuesOf[k]} :
                           S \in SUBSET DOMAIN valuesOf}}

ArrayOptionValues ==
    [k \in {"delimiter", "parseNumber"} |->
        IF k = "delimiter"
        THEN {Str(<<",">>), Str(<<";">>), Str(<<",", ",">>), Str(<<>>), Undefined}
        ELSE {Bool(TRUE), Bool(FALSE), Undefined}]

NullOptionValues ==
    [k \in {"allowUndefined"} |-> {Bool(TRUE), Bool(FALSE), Undefined}]

ArrayOptions == {Undefined} \cup Objects(ArrayOptionValues)

NullOptions == {Undefined} \cup Objects(NullOptionValues)

RequiredLists == UNION {[1..k -> Names] : k \in 0..MaxRequired}

Environments == UNION {[S -> {"", "x"}] : S \in SUBSET Names}

NoEnv == [n \in {} |-> ""]

-----------------------------------------------------------------------------
(* One invocation: arguments chosen, then the call runs to its outcome.    *)

Invoke(f, values, fallbacks, opts) ==
    /\ fn = f
    /\ value2Parse \in values
    /\ fallbackValue \in fallbacks
    /\ options \in opts
    /\ required = <<>>
    /\ env = NoEnv
    /\ pc = "ready"
    /\ result = None

InitParseBoolean ==
    Invoke("parseBoolean", Inputs(BoolChars, MaxBoolLen), {Undefined}, {Undefined})

InitParseString ==
    Invoke("parseString", Inputs(StrChars, MaxStrLen), StringFallbacks, {Undefined})

InitParseNumber ==
    Invoke("parseNumber", Inputs(NumChars, MaxNumLen), NumberFallbacks, {Undefined})

InitParseArray ==
    Invoke("parseArray", Inputs(ArrChars, MaxArrLen), {Undefined}, ArrayOptions)

InitParseNull ==
    Invoke("parseNull", Inputs(NullChars, MaxNullLen), {Undefined}, NullOptions)

InitMandatoryVariables ==
    /\ fn = "mandatoryVariables"
    /\ value2Parse = Undefined
    /\ fallbackValue = Undefined
    /\ options = Undefined
    /\ required \in RequiredLists
    /\ env \in Environments
    /\ pc = "ready"
    /\ result = None

Init ==
    \/ InitParseBoolean
    \/ InitParseString
    \/ InitParseNumber
    \/ InitParseArray
    \/ InitParseNull
    \/ InitMandatoryVariables

CallParseBoolean ==
    /\ pc = "ready"
    /\ fn = "parseBoolean"
    /\ result' = parseBoolean(value2Parse)
    /\ pc' = "done"
    /\ UNCHANGED <<fn, value2Parse, fallbackValue, options, required, env>>

CallParseString ==
    /\ pc = "ready"
    /\ fn = "parseString"
    /\ result' = parseString(value2Parse, fallbackValue)
    /\ pc' = "done"
    /\ UNCHANGED <<fn, value2Parse, fallbackValue, options, required, env>>

CallParseNumber ==
    /\ pc = "ready"
    /\ fn = "parseNumber"
    /\ result' = parseNumber(value2Parse, fallbackValue)
    /\ pc' = "done"
    /\ UNCHANGED <<fn, value2Parse, fallbackValue, options, required, env>>

CallParseArray ==
    /\ pc = "ready"
    /\ fn = "parseArray"
    /\ result' = parseArray(value2Parse, options)
    /\ pc' = "done"
    /\ UNCHANGED <<fn, value2Parse, fallbackValue, options, required, env>>

CallParseNull ==
    /\ pc = "ready"
    /\ fn = "parseNull"
    /\ result' = parseNull(value2Parse, options)
    /\ pc' = "done"
    /\ UNCHANGED <<fn, value2Parse, fallbackValue, options, required, env>>

(* The filter only reads process.env.                                      *)
CallMandatoryVariables ==
    /\ pc = "ready"
    /\ fn = "mandatoryVariables"
    /\ result' = mandatoryVariables(required, env)
    /\ pc' = "done"
    /\ UNCHANGED <<fn, value2Parse, fallbackValue, options, required, env>>

Next ==
    \/ CallParseBoolean
    \/ CallParseString
    \/ CallParseNumber
    \/ CallParseArray
    \/ CallParseNull
    \/ CallMandatoryVariables

Spec == Init /\ [][Next]_vars

SpecParseBoolean == InitParseBoolean /\ [][CallParseBoolean]_vars

SpecParseString == InitParseString /\ [][CallParseString]_vars

SpecParseNumber == InitParseNumber /\ [][CallParseNumber]_vars

SpecParseArray == InitParseArray /\ [][CallParseArray]_vars

SpecParseNull == InitParseNull /\ [][CallParseNull]_vars

SpecMandatoryVariables == InitMandatoryVariables /\ [][CallMandatoryVariables]_vars

-----------------------------------------------------------------------------
(* Vocabulary of the properties, stated without the operators above.       *)

Done == pc = "done"

Present == value2Parse.t = "string"

Absent == value2Parse = Undefined

Returned(v) == result = Return(v)

Failed == result.t = "throw"

IsBlank(s) == \A i \in 1..Len(s) : s[i] \in WhiteSpaceChars

(* s is core with whitespace, and only whitespace, around it.              *)
Surrounds(s, core) ==
    \E a \in 0..Len(s) :
        /\ a + Len(core) <= Len(s)
        /\ SubSeq(s, a + 1, a + Len(core)) = core
        /\ \A i \in 1..a : s[i] \in WhiteSpaceChars
        /\ \A i \in (a + Len(core) + 1)..Len(s) : s[i] \in WhiteSpaceChars

(* t is s without its leading and trailing whitespace.                     *)
IsTrimmed(t, s) ==
    /\ Surrounds(s, t)
    /\ t # <<>> => (t[1] \notin WhiteSpaceChars /\ t[Len(t)] \notin WhiteSpaceChars)

(* w is the word given in lower and in upper case, in any mix of the two. *)
Spells(w, lower, upper) ==
    /\ Len(w) = Len(lower)
    /\ \A i \in 1..Len(w) : w[i] \in {lower[i], upper[i]}

IsTruthyToken(w) ==
    w = <<"1">> \/ Spells(w, <<"t","r","u","e">>, <<"T","R","U","E">>)

IsNullToken(w) == Spells(w, <<"n","u","l","l">>, <<"N","U","L","L">>)

(* s is a token of the kind with only whitespace around it.                *)
SurroundsToken(s, kind) ==
    \E a \in 0..Len(s) : \E b \in a..Len(s) :
        /\ IF kind = "truthy" THEN IsTruthyToken(SubSeq(s, a + 1, b))
                              ELSE IsNullToken(SubSeq(s, a + 1, b))
        /\ \A i \in 1..a : s[i] \in WhiteSpaceChars
        /\ \A i \in (b + 1)..Len(s) : s[i] \in WhiteSpaceChars

(* C7: parseBoolean never fails and returns true exactly for a present     *)
(* string that is "true" (in any letter case) or "1" with nothing but      *)
(* whitespace around it; every other string and the absent input give     *)
(* false.                                                                  *)
C7_ParseBooleanTruthyTokens ==
    Done =>
        /\ result.t = "return"
        /\ result.v.t = "boolean"
        /\ result.v.v <=> (Present /\ SurroundsToken(value2Parse.v, "truthy"))

C7_Witness ==
    /\ Done
    /\ value2Parse = Str(<<" ", "T", "r", "u", "e">>)
    /\ Returned(Bool(TRUE))

(* C4: parseString returns a present input trimmed, whatever the fallback; *)
(* an absent input gives the supplied fallback unchanged (null included)   *)
(* and fails when no fallback was supplied.                                *)
C4_ParseStringFallbackRule ==
    Done =>
        /\ Present =>
            /\ result.t = "return"
            /\ result.v.t = "string"
            /\ IsTrimmed(result.v.v, value2Parse.v)
        /\ (Absent /\ fallbackValue # Undefined) => Returned(fallbackValue)
        /\ (Absent /\ fallbackValue = Undefined) => Failed

C4_Witness ==
    /\ Done
    /\ Absent
    /\ fallbackValue = Str(<<" ", "x", " ">>)
    /\ Returned(Str(<<" ", "x", " ">>))

(* C3: parseNumber returns the converted number when the input converts,   *)
(* ignoring the fallback; otherwise (absent input included) it returns the *)
(* supplied fallback as it is, null included, and fails when none was      *)
(* supplied.                                                               *)
Converts == Present /\ StringToNumber(value2Parse.v) # NaN

C3_ParseNumberFallbackRule ==
    Done =>
        /\ Converts => Returned(Num(StringToNumber(value2Parse.v)))
        /\ (~Converts /\ fallbackValue # Undefined) => Returned(fallbackValue)
        /\ (~Converts /\ fallbackValue = Undefined) => Failed

C3_Witness ==
    /\ Done
    /\ value2Parse = Str(<<"1", "a">>)
    /\ fallbackValue = Null
    /\ Returned(Null)

(* C1: parseNumber of an empty or whitespace-only string fails when no     *)
(* fallback is supplied, returns the fallback when one is, and does not    *)
(* return 0 of its own.                                                    *)
C1_BlankIsNotANumber ==
    (Done /\ Present /\ IsBlank(value2Parse.v)) =>
        /\ fallbackValue = Undefined => Failed
        /\ fallbackValue # Undefined => Returned(fallbackValue)
        /\ fallbackValue # Num(Int2Num(0)) => ~Returned(Num(Int2Num(0)))

(* C2: parseArray with parseNumber = true on a present input with an empty *)
(* element (a leading or trailing delimiter, or two adjacent delimiters)   *)
(* fails; it returns no sequence.                                          *)
OptionGiven(k) == options.t = "object" /\ k \in DOMAIN options.v

StartsWith(s, d) == Len(d) <= Len(s) /\ SubSeq(s, 1, Len(d)) = d

EndsWith(s, d) == Len(d) <= Len(s) /\ SubSeq(s, Len(s) - Len(d) + 1, Len(s)) = d

Contains(s, d) == \E i \in 1..(Len(s) - Len(d) + 1) : SubSeq(s, i, i + Len(d) - 1) = d

HasEmptyElement(s, d) == StartsWith(s, d) \/ EndsWith(s, d) \/ Contains(s, d \o d)

C2_EmptyElementFailsNumberArray ==
    \A d \in {<<",">>, <<";">>} :
        ( /\ Done
          /\ Present
          /\ OptionGiven("parseNumber") /\ options.v["parseNumber"] = Bool(TRUE)
          /\ IF OptionGiven("delimiter") THEN options.v["delimiter"] = Str(d) ELSE d = <<",">>
          /\ HasEmptyElement(value2Parse.v, d) )
        => Failed

(* The literal split, by cut points: the cuts are the occurrences of d     *)
(* found scanning from the left, each search resuming after the previous   *)
(* cut; the pieces are what lies between consecutive cuts.                 *)
RECURSIVE CutsFrom(_, _, _)
CutsFrom(s, d, from) ==
    LET found == {i \in from..(Len(s) - Len(d) + 1) : SubSeq(s, i, i + Len(d) - 1) = d}
        first == CHOOSE i \in found : \A j \in found : i <= j
    IN  IF found = {} THEN {} ELSE {first} \cup CutsFrom(s, d, first + Len(d))

LiteralPieces(s, d) ==
    LET cuts == CutsFrom(s, d, 1)
        n == Cardinality(cuts)
        cut(k) == CHOOSE i \in cuts : Cardinality({j \in cuts : j <= i}) = k
        from(k) == IF k = 1 THEN 1 ELSE cut(k - 1) + Len(d)
        to(k) == IF k = n + 1 THEN Len(s) ELSE cut(k) - 1
    IN  [k \in 1..(n + 1) |-> SubSeq(s, from(k), to(k))]

(* What parseArray must give for pieces parsed one by one with no          *)
(* fallback: the sequence of their values, or a failure if any piece       *)
(* fails.                                                                  *)
ElementwiseOutcome(pieces, numeric) ==
    LET each == [i \in 1..Len(pieces) |->
                    IF numeric THEN parseNumber(Str(pieces[i]), Undefined)
                               ELSE parseString(Str(pieces[i]), Undefined)]
    IN  IF \E i \in 1..Len(each) : each[i].t = "throw"
        THEN Failed
        ELSE Returned(Arr([i \in 1..Len(each) |-> each[i].v]))

(* The option in force: the caller's when the key is given, else the      *)
(* documented default.                                                     *)
InForce(k, default) == IF OptionGiven(k) THEN options.v[k] ELSE default

(* C5: on a present input with a non-empty delimiter d, parseArray is the  *)
(* element parser (parseNumber or parseString, no fallback) mapped over    *)
(* the literal split at d, in order: one piece more than there are         *)
(* occurrences of d (counted from the left, an occurrence starting after   *)
(* the previous one ends), and a failure as a whole when an element fails. *)
C5_ParseArrayMapsOverSplit ==
    LET d == InForce("delimiter", Str(<<",">>))
        numeric == InForce("parseNumber", Bool(FALSE))
    IN  ( /\ Done
          /\ Present
          /\ d.t = "string"
          /\ d.v # <<>>
          /\ numeric.t = "boolean" )
        => /\ ElementwiseOutcome(LiteralPieces(value2Parse.v, d.v), numeric.v)
           /\ (result.t = "return" /\ Len(d.v) = 1) =>
                Len(result.v.v) =
                    Cardinality({i \in 1..Len(value2Parse.v) : value2Parse.v[i] = d.v[1]}) + 1

C5_Witness ==
    /\ Done
    /\ value2Parse = Str(<<"1", ";", " ", ";">>)
    /\ options = Obj([k \in {"delimiter", "parseNumber"} |->
                        IF k = "delimiter" THEN Str(<<";">>) ELSE Bool(FALSE)])
    /\ Returned(Arr(<<Str(<<"1">>), Str(<<>>), Str(<<>>)>>))

(* C6: an option the caller leaves out takes its default (delimiter ',',   *)
(* parseNumber false) and a supplied one overrides only itself.            *)
C6_ParseArrayOptionDefaults ==
    ( /\ Done
      /\ Present
      /\ ~(OptionGiven("delimiter") /\ OptionGiven("parseNumber"))
      /\ OptionGiven("delimiter") =>
            (options.v["delimiter"].t = "string" /\ options.v["delimiter"].v # <<>>)
      /\ OptionGiven("parseNumber") => options.v["parseNumber"].t = "boolean" )
    => ElementwiseOutcome(
            LiteralPieces(value2Parse.v,
                          IF OptionGiven("delimiter") THEN options.v["delimiter"].v ELSE <<",">>),
            IF OptionGiven("parseNumber") THEN options.v["parseNumber"].v ELSE FALSE)

C6_Witness ==
    /\ Done
    /\ value2Parse = Str(<<"1", ",", "1", ";">>)
    /\ options = Obj([k \in {"delimiter"} |-> Str(<<";">>)])
    /\ Returned(Arr(<<Str(<<"1", ",", "1">>), Str(<<>>)>>))

(* C10: parseArray of an absent input returns the empty sequence and does  *)
(* not fail, whatever the options.                                         *)
C10_ParseArrayAbsentIsEmpty ==
    (Done /\ Absent) => Returned(Arr(<<>>))

C10_Witness ==
    /\ Done
    /\ Absent
    /\ options = Obj([k \in {"delimiter", "parseNumber"} |->
                        IF k = "delimiter" THEN Str(<<";">>) ELSE Bool(TRUE)])
    /\ Returned(Arr(<<>>))

(* C8: parseNull returns null for a present input exactly when it is       *)
(* "null" (in any letter case) with only whitespace around it, whatever    *)
(* allowUndefined is, and for an absent input exactly when allowUndefined  *)
(* is true; every other call fails, and nothing but null is ever returned. *)
C8_ParseNullRule ==
    Done =>
        /\ Returned(Null) \/ Failed
        /\ Present => (Returned(Null) <=> SurroundsToken(value2Parse.v, "null"))
        /\ Absent => (Returned(Null) <=>
                        (OptionGiven("allowUndefined") /\ options.v["allowUndefined"] = Bool(TRUE)))

C8_Witness ==
    /\ Done
    /\ Absent
    /\ options = Obj([k \in {"allowUndefined"} |-> Bool(TRUE)])
    /\ Returned(Null)

(* The required names that are not set, in the order of the required list: *)
(* the k-th is the name at the k-th position whose name is not set.        *)
ExpectedMissing ==
    LET unset == {i \in 1..Len(required) : required[i] \notin DOMAIN env}
        nth(k) == CHOOSE i \in unset : Cardinality({j \in unset : j <= i}) = k
    IN  [k \in 1..Cardinality(unset) |-> required[nth(k)]]

(* The names of a list, written one after the other with ", " between.     *)
RECURSIVE Listed(_)
Listed(names) ==
    IF names = <<>> THEN ""
    ELSE Listed(SubSeq(names, 1, Len(names) - 1))
            \o (IF Len(names) > 1 THEN ", " ELSE "")
            \o names[Len(names)]

(* C9: mandatoryVariables fails exactly when a required name is not set in *)
(* the environment; the failure lists exactly the unset required names in  *)
(* the order of the required list; otherwise the call completes with no    *)
(* value; only the names set, not their values, decide the outcome, and    *)
(* the environment is left as it was.                                      *)
C9_MandatoryVariablesRule ==
    /\ [](Done =>
            /\ Failed <=> (\E i \in 1..Len(required) : required[i] \notin DOMAIN env)
            /\ Failed => result.v.message =
                            "missing required env variables [" \o Listed(ExpectedMissing) \o "]"
            /\ ~Failed => Returned(Undefined))
    /\ [][env' = env /\ required' = required]_vars

C9_Witness ==
    /\ Done
    /\ required = <<"C", "A", "B">>
    /\ DOMAIN env = {"A"}
    /\ result = Throw("missing required env variables [C, B]")

====
